---- MODULE Spec2Model ----
(***************************************************************************)
(* Version lifecycle and referential integrity of schemas and              *)
(* configurations (SchemaService, ConfigurationService and their MongoDB   *)
(* repositories).                                                          *)
(*                                                                         *)
(* A stored document is a record.  Its ObjectId is <<"sid", n>> (schemas)  *)
(* or <<"cid", n>> (configurations); a group id (`schema_<time>_<rand>`,   *)
(* `config_<time>_<rand>`) is <<"schema", n>> or <<"config", n>>, so an    *)
(* ObjectId never equals a group id, as in the program.                    *)
(* A JSON-Schema document is abstracted to three facts: whether            *)
(* ajv.validateSchema accepts it, whether ajv.compile succeeds on it, and  *)
(* the set of keys it requires.  A data value is the set of keys present.  *)
(***************************************************************************)
EXTENDS Integers, Sequences, FiniteSets, TLC

VARIABLES schemas, configs, validators, nextSid, nextCid, pc, loc, raced

vars == <<schemas, configs, validators, nextSid, nextCid, pc, loc, raced>>

\* ------------------------------------------------------------------ bounds
MaxSchemas == 2    \* schema documents ever inserted
MaxConfigs == 2    \* configuration documents ever inserted
\* entries in the files the loader reads at startup
MaxItems == 2
MaxVersions == 3   \* documents ever inserted into a collection, where nothing is deleted

\* ------------------------------------------------------------ input values
VALID_TYPES == {"signal", "post-processor"}
Names == {"a", "A", "b"}

DocX == [meta |-> TRUE, compiles |-> TRUE, required |-> {"x"}]
DocXY == [meta |-> TRUE, compiles |-> TRUE, required |-> {"x", "y"}]
DocInvalid == [meta |-> FALSE, compiles |-> FALSE, required |-> {}]
DocNoCompile == [meta |-> TRUE, compiles |-> FALSE, required |-> {}]
Docs == {DocX, DocXY, DocInvalid, DocNoCompile}

DataValues == {{}, {"x"}, {"x", "y"}}

\* an optional field of an updates object: Undefined or Some(value)
Undefined == <<>>
Some(v) == <<v>>
Opt(S) == {Undefined} \cup {Some(v) : v \in S}

\* ------------------------------------------------------------ AJV
\* ajv.validateSchema(document)
ValidateSchema(doc) == doc.meta
\* ajv.compile(document) succeeds
Compiles(doc) == doc.compiles
\* validator(data) for the validator compiled from doc
RunValidator(doc, data) == doc.required \subseteq data

\* new RegExp(`^${name}$`, 'i') applied to a stored name
Lower(n) == IF n = "A" THEN "a" ELSE n
NameMatches(pattern, name) == Lower(pattern) = Lower(name)

\* ------------------------------------------------------------ identifiers
Sid(n) == <<"sid", n>>
Cid(n) == <<"cid", n>>
GenerateSchemaId(n) == <<"schema", n>>
\* mutant: every configuration group gets one and the same id
GenerateConfigIdFixed(n) == <<"config", 1>>
GenerateConfigId(n) == <<"config", n>>
\* ids no document carries: every absent id behaves alike
NoSchemaId == GenerateSchemaId(0)
NoConfigId == GenerateConfigId(0)
NoSid == Sid(0)
NoCid == Cid(0)

\* findOne: the first match in natural (insertion) order, as a set of 0 or 1
First(S) == IF S = {} THEN {} ELSE {CHOOSE d \in S : \A e \in S : d.id[2] <= e.id[2]}
The(S) == CHOOSE d \in S : TRUE

Max(S) == CHOOSE m \in S : \A k \in S : k <= m

\* ------------------------------------------------------------ BaseRepository
FindById(coll, id) == {d \in coll : d.id = id}
Delete(coll, id) == {d \in coll : d.id # id}

\* ------------------------------------------------------------ SchemaRepository
FindBySchemaIdAndVersion(S, schemaId, version) ==
    First({s \in S : s.schemaId = schemaId /\ s.version = version})

FindActiveBySchemaId(S, schemaId) ==
    First({s \in S : s.schemaId = schemaId /\ s.active})

FindAllVersionsBySchemaId(S, schemaId) == {s \in S : s.schemaId = schemaId}

FindLatestBySchemaId(S, schemaId) ==
    LET all == FindAllVersionsBySchemaId(S, schemaId)
    IN  First({s \in all : \A t \in all : t.version <= s.version})

FindByNameAndType(S, name, type) ==
    First({s \in S : NameMatches(name, s.name) /\ s.type = type})

\* mutant: the deactivation of the siblings is forgotten
SetAllInactiveBySchemaIdSkipped(S, schemaId) == S

SetAllInactiveBySchemaId(S, schemaId) ==
    {IF s.schemaId = schemaId THEN [s EXCEPT !.active = FALSE] ELSE s : s \in S}

\* mutant: the requested version is never activated
SchemaSetVersionActiveDeactivatesOnly(S, schemaId, version) ==
    SetAllInactiveBySchemaId(S, schemaId)

SchemaSetVersionActive(S, schemaId, version) ==
    LET S1 == SetAllInactiveBySchemaId(S, schemaId)
        hit == FindBySchemaIdAndVersion(S1, schemaId, version)
    IN  IF hit = {} THEN S1
        ELSE (S1 \ hit) \cup {[The(hit) EXCEPT !.active = TRUE]}

\* mutant: the next number is taken from the active version, not the latest
SchemaGetNextVersionFromActive(S, schemaId) ==
    LET active == FindActiveBySchemaId(S, schemaId)
    IN  IF active = {} THEN 1 ELSE The(active).version + 1

SchemaGetNextVersion(S, schemaId) ==
    LET latest == FindLatestBySchemaId(S, schemaId)
    IN  IF latest = {} THEN 1 ELSE The(latest).version + 1

\* mutant: only the inactive versions are deleted
DeleteAllVersionsBySchemaIdInactiveOnly(S, schemaId) ==
    {s \in S : s.schemaId # schemaId \/ s.active}

DeleteAllVersionsBySchemaId(S, schemaId) == {s \in S : s.schemaId # schemaId}

\* ------------------------------------------------------------ validator cache
\* validators: Map<string, ValidateFunction>, as a set of [id, doc] entries
ValidatorsHas(V, id) == \E v \in V : v.id = id
ValidatorsGet(V, id) == The({v \in V : v.id = id}).doc
ValidatorsSet(V, id, doc) == {v \in V : v.id # id} \cup {[id |-> id, doc |-> doc]}
ValidatorsDelete(V, id) == {v \in V : v.id # id}

\* mutant: the validator cached is compiled from the document without its
\* required list
CompileAndCacheLoose(V, id, doc) ==
    IF Compiles(doc) THEN ValidatorsSet(V, id, [doc EXCEPT !.required = {}]) ELSE V

\* try { validators.set(id, ajv.compile(doc)) } catch { warn }
CompileAndCache(V, id, doc) == IF Compiles(doc) THEN ValidatorsSet(V, id, doc) ELSE V

\* ------------------------------------------------------------ ConfigurationRepository
FindBySchemaId(C, schemaId) == {c \in C : c.schemaId = schemaId}

\* mutant: only an active version counts as an existing configuration
FindByNameAndSchemaIdActiveOnly(C, name, schemaId) ==
    First({c \in C : NameMatches(name, c.name) /\ c.schemaId = schemaId /\ c.active})

FindByNameAndSchemaId(C, name, schemaId) ==
    LET active == First({c \in C : NameMatches(name, c.name) /\ c.schemaId = schemaId /\ c.active})
    IN  IF active # {} THEN active
        ELSE First({c \in C : NameMatches(name, c.name) /\ c.schemaId = schemaId})

FindByConfigIdAndVersion(C, configId, version) ==
    First({c \in C : c.configId = configId /\ c.version = version})

FindActiveByConfigId(C, configId) ==
    First({c \in C : c.configId = configId /\ c.active})

FindAllVersionsByConfigId(C, configId) == {c \in C : c.configId = configId}

FindLatestByConfigId(C, configId) ==
    LET all == FindAllVersionsByConfigId(C, configId)
    IN  First({c \in all : \A d \in all : d.version <= c.version})

\* mutant: the deactivation of the siblings is forgotten
SetAllInactiveByConfigIdSkipped(C, configId) == C

\* mutant: the deactivation also overwrites the data of the versions
SetAllInactiveByConfigIdClearsData(C, configId) ==
    {IF c.configId = configId THEN [c EXCEPT !.active = FALSE, !.data = {}] ELSE c : c \in C}

SetAllInactiveByConfigId(C, configId) ==
    {IF c.configId = configId THEN [c EXCEPT !.active = FALSE] ELSE c : c \in C}

ConfigSetVersionActive(C, configId, version) ==
    LET C1 == SetAllInactiveByConfigId(C, configId)
        hit == FindByConfigIdAndVersion(C1, configId, version)
    IN  IF hit = {} THEN C1
        ELSE (C1 \ hit) \cup {[The(hit) EXCEPT !.active = TRUE]}

ConfigGetNextVersion(C, configId) ==
    LET latest == FindLatestByConfigId(C, configId)
    IN  IF latest = {} THEN 1 ELSE The(latest).version + 1

\* ------------------------------------------------------------ outcomes
\* What a handler leaves behind and hands back: the collections, the validator
\* cache and the id counters after the call, the error thrown ("" when it returned),
\* the returned entity (a set of 0 or 1 documents; empty for null), the returned
\* count, the returned validation verdict and the notifications handed to
\* NotificationService (Notify applies the publisher to them).
Out(S, C, V, ns, nc, err, ret, count, valid, events) ==
    [schemas |-> S, configs |-> C, validators |-> V, nextSid |-> ns, nextCid |-> nc,
     err |-> err, ret |-> ret, count |-> count, valid |-> valid, events |-> events]

\* a throw before any write
Throw(err) == Out(schemas, configs, validators, nextSid, nextCid, err, {}, 0, "na", <<>>)

Apply(o) ==
    /\ schemas' = o.schemas
    /\ configs' = o.configs
    /\ validators' = o.validators
    /\ nextSid' = o.nextSid
    /\ nextCid' = o.nextCid
    /\ UNCHANGED <<pc, loc, raced>>

\* the requests whose steps may interleave
Procs == {1, 2}

Init ==
    /\ schemas = {}
    /\ configs = {}
    /\ validators = {}
    /\ nextSid = 1
    /\ nextCid = 1
    /\ pc = [p \in Procs |-> "idle"]
    /\ loc = [p \in Procs |-> <<>>]
    /\ raced = {}

\* ------------------------------------------------------------ NotificationService
\* The publisher as a handler finds it: connected, not available (no channel or no
\* topic), or connected with channel.publish throwing.
ChannelStates == {"connected", "unavailable", "failing"}

\* mutant: the error of channel.publish is not caught
PublishUncaught(channel, action) ==
    [thrown |-> channel = "failing",
     published |-> IF channel = "connected" THEN <<action>> ELSE <<>>]

\* publish(action, data): what the caller sees thrown and what reaches the exchange
Publish(channel, action) ==
    [thrown |-> FALSE,
     published |-> IF channel = "connected" THEN <<action>> ELSE <<>>]

\* The notify* calls a handler makes after its writes, with the publisher in state
\* `channel`: an error thrown by one of them is thrown by the handler.
Notify(channel, o) ==
    LET rs == [i \in 1..Len(o.events) |-> Publish(channel, o.events[i])]
    IN  IF \E i \in 1..Len(o.events) : rs[i].thrown
        THEN [o EXCEPT !.err = "publish_failed", !.ret = {}, !.count = 0, !.events = <<>>]
        ELSE [o EXCEPT !.events = IF \A i \in 1..Len(o.events) : rs[i].published # <<>>
                                  THEN o.events ELSE <<>>]

\* ------------------------------------------------------------ ConfigurationService (reads)
GetConfigurationsBySchemaId(C, schemaId) ==
    {c \in FindBySchemaId(C, schemaId) : c.active}

GetConfigurationsBySchemaSchemaId(S, C, schemaSchemaId) ==
    LET schemaIds == {s.id : s \in FindAllVersionsBySchemaId(S, schemaSchemaId)}
    IN  {c \in C : c.schemaId \in schemaIds /\ c.active}

\* ------------------------------------------------------------ SchemaService
CreateSchemaWithVersion(name, type, doc, version, active, schemaIdArg) ==
    LET finalSchemaId == IF schemaIdArg = NoSchemaId THEN GenerateSchemaId(nextSid)
                         ELSE schemaIdArg
        S1 == IF active THEN SetAllInactiveBySchemaId(schemas, finalSchemaId) ELSE schemas
        schema == [id |-> Sid(nextSid), schemaId |-> finalSchemaId, version |-> version,
                   active |-> active, type |-> type, name |-> name, schema |-> doc]
    IN  IF ~ValidateSchema(doc) THEN Throw("invalid_schema")
        ELSE IF FindByNameAndType(schemas, name, type) # {} THEN Throw("duplicate_name")
        ELSE IF FindBySchemaIdAndVersion(schemas, finalSchemaId, version) # {}
        THEN Throw("version_exists")
        ELSE Out(S1 \cup {schema}, configs, CompileAndCache(validators, schema.id, doc),
                 nextSid + 1, nextCid, "", {schema}, 0, "na", <<"SCHEMA_CREATED">>)

CreateSchema(name, type, doc) == CreateSchemaWithVersion(name, type, doc, 1, TRUE, NoSchemaId)

\* mutant: the omitted fields are taken from the highest-numbered version
UpdateSchemaBySchemaIdFromLatest(schemaId, updates) ==
    LET existing == FindLatestBySchemaId(schemas, schemaId)
        ex == The(existing)
        newSchema == IF updates.schema # Undefined THEN updates.schema[1] ELSE ex.schema
        nextVersion == SchemaGetNextVersion(schemas, schemaId)
        newVersion == [id |-> Sid(nextSid), schemaId |-> schemaId,
                       version |-> nextVersion, active |-> TRUE,
                       type |-> IF updates.type # Undefined THEN updates.type[1] ELSE ex.type,
                       name |-> ex.name, schema |-> newSchema]
        S1 == SetAllInactiveBySchemaId(schemas, schemaId) \cup {newVersion}
    IN  IF updates.name # Undefined THEN Throw("name_immutable")
        ELSE IF existing = {} THEN Throw("not_found")
        ELSE IF ~ValidateSchema(newSchema) THEN Throw("invalid_schema")
        ELSE IF ~Compiles(newSchema)
        THEN Out(S1, configs, validators, nextSid + 1, nextCid, "compile_failed", {}, 0,
                 "na", <<>>)
        ELSE Out(S1, configs, ValidatorsSet(validators, newVersion.id, newSchema),
                 nextSid + 1, nextCid, "", {newVersion}, 0, "na", <<"SCHEMA_UPDATED">>)

\* updates: [name, type, schema], each Undefined or Some(value)
UpdateSchemaBySchemaId(schemaId, updates) ==
    LET existing == FindActiveBySchemaId(schemas, schemaId)
        ex == The(existing)
        newSchema == IF updates.schema # Undefined THEN updates.schema[1] ELSE ex.schema
        nextVersion == SchemaGetNextVersion(schemas, schemaId)
        newVersion == [id |-> Sid(nextSid), schemaId |-> schemaId,
                       version |-> nextVersion, active |-> TRUE,
                       type |-> IF updates.type # Undefined THEN updates.type[1] ELSE ex.type,
                       name |-> ex.name, schema |-> newSchema]
        S1 == SetAllInactiveBySchemaId(schemas, schemaId) \cup {newVersion}
    IN  IF updates.name # Undefined THEN Throw("name_immutable")
        ELSE IF existing = {} THEN Throw("not_found")
        ELSE IF ~ValidateSchema(newSchema) THEN Throw("invalid_schema")
        ELSE IF ~Compiles(newSchema)
        THEN Out(S1, configs, validators, nextSid + 1, nextCid, "compile_failed", {}, 0,
                 "na", <<>>)
        ELSE Out(S1, configs, ValidatorsSet(validators, newVersion.id, newSchema),
                 nextSid + 1, nextCid, "", {newVersion}, 0, "na", <<"SCHEMA_UPDATED">>)

SchemaSetActiveVersion(schemaId, version) ==
    LET S1 == SchemaSetVersionActive(schemas, schemaId, version)
        schema == {s \in S1 : s.schemaId = schemaId /\ s.version = version /\ s.active}
    IN  IF schema # {}
        THEN Out(S1, configs, CompileAndCache(validators, The(schema).id, The(schema).schema),
                 nextSid, nextCid, "", schema, 0, "na", <<>>)
        ELSE Out(S1, configs, validators, nextSid, nextCid, "", {}, 0, "na", <<>>)

DeleteSchema(id) ==
    LET schema == FindById(schemas, id)
        deleted == schema # {}
    IN  Out(Delete(schemas, id), configs,
            IF deleted THEN ValidatorsDelete(validators, id) ELSE validators,
            nextSid, nextCid, "", {}, IF deleted THEN 1 ELSE 0, "na", <<>>)

\* mutant: the validators of the deleted versions stay cached
SchemaDeleteAllVersionsKeepsValidators(schemaId) ==
    LET configurations == GetConfigurationsBySchemaId(configs, schemaId)
        versions == FindAllVersionsBySchemaId(schemas, schemaId)
    IN  IF configurations # {}
        THEN Out(schemas, configs, validators, nextSid, nextCid, "referenced", {},
                 Cardinality(configurations), "na", <<>>)
        ELSE Out(DeleteAllVersionsBySchemaId(schemas, schemaId), configs, validators,
                 nextSid, nextCid, "", {}, Cardinality(versions), "na",
                 <<"SCHEMA_DELETED">>)

SchemaDeleteAllVersionsBySchemaId(schemaId) ==
    LET configurations == GetConfigurationsBySchemaId(configs, schemaId)
        versions == FindAllVersionsBySchemaId(schemas, schemaId)
    IN  IF configurations # {}
        THEN Out(schemas, configs, validators, nextSid, nextCid, "referenced", {},
                 Cardinality(configurations), "na", <<>>)
        ELSE Out(DeleteAllVersionsBySchemaId(schemas, schemaId), configs,
                 {v \in validators : \A s \in versions : s.id # v.id},
                 nextSid, nextCid, "", {}, Cardinality(versions), "na",
                 <<"SCHEMA_DELETED">>)

\* validateData / validateDataByVersion on the document found (a set of 0 or 1)
RunCached(V, schema, data) ==
    IF schema = {} THEN [err |-> "not_found", valid |-> "na", V |-> V]
    ELSE LET s == The(schema)
         IN  IF ValidatorsHas(V, s.id)
             THEN [err |-> "",
                   valid |-> IF RunValidator(ValidatorsGet(V, s.id), data) THEN "true" ELSE "false",
                   V |-> V]
             ELSE IF ~Compiles(s.schema)
             THEN [err |-> "compile_failed", valid |-> "na", V |-> V]
             ELSE [err |-> "",
                   valid |-> IF RunValidator(s.schema, data) THEN "true" ELSE "false",
                   V |-> ValidatorsSet(V, s.id, s.schema)]

\* mutant: the version asked for is ignored and the active one is used
ValidateDataByVersionUsesActive(S, V, schemaId, version, data) ==
    RunCached(V, FindActiveBySchemaId(S, schemaId), data)

ValidateDataByVersion(S, V, schemaId, version, data) ==
    RunCached(V, FindBySchemaIdAndVersion(S, schemaId, version), data)

\* mutant: the highest-numbered version is used, active or not
ValidateDataUsesLatest(S, V, schemaId, data) ==
    RunCached(V, FindLatestBySchemaId(S, schemaId), data)

ValidateData(S, V, schemaId, data) ==
    RunCached(V, FindActiveBySchemaId(S, schemaId), data)

SchemaValidateData(schemaId, data) ==
    LET r == ValidateData(schemas, validators, schemaId, data)
    IN  Out(schemas, configs, r.V, nextSid, nextCid, r.err, {}, 0, r.valid, <<>>)

SchemaValidateDataByVersion(schemaId, version, data) ==
    LET r == ValidateDataByVersion(schemas, validators, schemaId, version, data)
    IN  Out(schemas, configs, r.V, nextSid, nextCid, r.err, {}, 0, r.valid, <<>>)

\* ------------------------------------------------------------ ConfigurationService
\* mutant: the configuration is saved before its data is validated
CreateConfigurationSavesFirst(name, type, schemaId, data) ==
    LET schema == FindById(schemas, schemaId)
        sc == The(schema)
        validation == ValidateDataByVersion(schemas, validators, sc.schemaId, sc.version, data)
        configuration == [id |-> Cid(nextCid), configId |-> GenerateConfigId(nextCid),
                          version |-> 1, active |-> TRUE, schemaId |-> schemaId,
                          type |-> type, name |-> name, data |-> data]
    IN  IF schema = {} THEN Throw("schema_not_found")
        ELSE IF FindByNameAndSchemaId(configs, name, schemaId) # {} THEN Throw("duplicate_name")
        ELSE IF type # sc.type THEN Throw("type_mismatch")
        ELSE IF validation.err # "" THEN Throw(validation.err)
        ELSE IF validation.valid # "true"
        THEN Out(schemas, configs \cup {configuration}, validation.V, nextSid, nextCid + 1,
                 "invalid_data", {}, 0, "na", <<>>)
        ELSE Out(schemas, configs \cup {configuration}, validation.V, nextSid, nextCid + 1,
                 "", {configuration}, 0, "na", <<"CONFIGURATION_CREATED">>)

CreateConfiguration(name, type, schemaId, data) ==
    LET schema == FindById(schemas, schemaId)
        sc == The(schema)
        validation == ValidateDataByVersion(schemas, validators, sc.schemaId, sc.version, data)
        configuration == [id |-> Cid(nextCid), configId |-> GenerateConfigId(nextCid),
                          version |-> 1, active |-> TRUE, schemaId |-> schemaId,
                          type |-> type, name |-> name, data |-> data]
    IN  IF schema = {} THEN Throw("schema_not_found")
        ELSE IF FindByNameAndSchemaId(configs, name, schemaId) # {} THEN Throw("duplicate_name")
        ELSE IF type # sc.type THEN Throw("type_mismatch")
        ELSE IF validation.err # "" THEN Throw(validation.err)
        ELSE IF validation.valid # "true"
        THEN Out(schemas, configs, validation.V, nextSid, nextCid, "invalid_data", {}, 0,
                 "na", <<>>)
        ELSE Out(schemas, configs \cup {configuration}, validation.V, nextSid, nextCid + 1,
                 "", {configuration}, 0, "na", <<"CONFIGURATION_CREATED">>)

\* mutant: the type of a new target is not compared with the configuration's
CheckConfigurationUpdateAnyType(S, V, existing, updates) ==
    LET validationSchema == FindById(S, existing.schemaId)
        repoint == updates.schemaId # Undefined /\ updates.schemaId[1] # existing.schemaId
        newSchema == IF repoint THEN FindById(S, updates.schemaId[1]) ELSE validationSchema
        newData == IF updates.data # Undefined THEN updates.data[1] ELSE existing.data
        newSchemaId == IF updates.schemaId # Undefined THEN updates.schemaId[1]
                       ELSE existing.schemaId
        validation == ValidateDataByVersion(S, V, The(newSchema).schemaId,
                                            The(newSchema).version, newData)
        Chk(e, W) == [err |-> e, V |-> W, data |-> newData, schemaId |-> newSchemaId]
    IN  IF updates.name # Undefined /\ updates.name[1] # existing.name
        THEN Chk("name_immutable", V)
        ELSE IF updates.type # Undefined /\ updates.type[1] # existing.type
        THEN Chk("type_immutable", V)
        ELSE IF validationSchema = {} THEN Chk("schema_not_found", V)
        ELSE IF repoint /\ newSchema = {} THEN Chk("schema_not_found", V)
        ELSE IF ~repoint /\ updates.data = Undefined THEN Chk("", V)
        ELSE IF validation.err # "" THEN Chk(validation.err, V)
        ELSE IF validation.valid # "true" THEN Chk("invalid_data", validation.V)
        ELSE Chk("", validation.V)

\* updateConfigurationByConfigId from the immutability checks to the validation,
\* for the active version `existing`: [err, V, data, schemaId]
CheckConfigurationUpdate(S, V, existing, updates) ==
    LET validationSchema == FindById(S, existing.schemaId)
        repoint == updates.schemaId # Undefined /\ updates.schemaId[1] # existing.schemaId
        newSchema == IF repoint THEN FindById(S, updates.schemaId[1]) ELSE validationSchema
        newData == IF updates.data # Undefined THEN updates.data[1] ELSE existing.data
        newSchemaId == IF updates.schemaId # Undefined THEN updates.schemaId[1]
                       ELSE existing.schemaId
        validation == ValidateDataByVersion(S, V, The(newSchema).schemaId,
                                            The(newSchema).version, newData)
        Chk(e, W) == [err |-> e, V |-> W, data |-> newData, schemaId |-> newSchemaId]
    IN  IF updates.name # Undefined /\ updates.name[1] # existing.name
        THEN Chk("name_immutable", V)
        ELSE IF updates.type # Undefined /\ updates.type[1] # existing.type
        THEN Chk("type_immutable", V)
        ELSE IF validationSchema = {} THEN Chk("schema_not_found", V)
        ELSE IF repoint /\ newSchema = {} THEN Chk("schema_not_found", V)
        ELSE IF repoint /\ existing.type # The(newSchema).type THEN Chk("type_mismatch", V)
        ELSE IF ~repoint /\ updates.data = Undefined THEN Chk("", V)
        ELSE IF validation.err # "" THEN Chk(validation.err, V)
        ELSE IF validation.valid # "true" THEN Chk("invalid_data", validation.V)
        ELSE Chk("", validation.V)

NewConfigurationVersion(n, existing, configId, nextVersion, schemaId, data) ==
    [id |-> Cid(n), configId |-> configId, version |-> nextVersion, active |-> TRUE,
     schemaId |-> schemaId, type |-> existing.type, name |-> existing.name, data |-> data]

\* updates: [name, type, schemaId, data], each Undefined or Some(value)
UpdateConfigurationByConfigId(configId, updates) ==
    LET existing == FindActiveByConfigId(configs, configId)
        chk == CheckConfigurationUpdate(schemas, validators, The(existing), updates)
        nextVersion == ConfigGetNextVersion(configs, configId)
        newVersion == NewConfigurationVersion(nextCid, The(existing), configId, nextVersion,
                                              chk.schemaId, chk.data)
    IN  IF existing = {} THEN Throw("not_found")
        ELSE IF chk.err # ""
        THEN Out(schemas, configs, chk.V, nextSid, nextCid, chk.err, {}, 0, "na", <<>>)
        ELSE Out(schemas, SetAllInactiveByConfigId(configs, configId) \cup {newVersion},
                 chk.V, nextSid, nextCid + 1, "", {newVersion}, 0, "na",
                 <<"CONFIGURATION_UPDATED">>)

ConfigSetActiveVersion(configId, version) ==
    LET C1 == ConfigSetVersionActive(configs, configId, version)
        configuration ==
            First({c \in C1 : c.configId = configId /\ c.version = version /\ c.active})
    IN  Out(schemas, C1, validators, nextSid, nextCid, "", configuration, 0, "na",
            IF configuration # {} THEN <<"CONFIGURATION_UPDATED">> ELSE <<>>)

DeleteConfiguration(id) ==
    LET deleted == FindById(configs, id) # {}
    IN  Out(schemas, Delete(configs, id), validators, nextSid, nextCid, "", {},
            IF deleted THEN 1 ELSE 0, "na",
            IF deleted THEN <<"CONFIGURATION_DELETED">> ELSE <<>>)

DeleteAllConfigurations ==
    Out(schemas, {}, validators, nextSid, nextCid, "", {}, Cardinality(configs), "na",
        [i \in 1..Cardinality(configs) |-> "CONFIGURATION_DELETED"])

ValidateConfiguration(id) ==
    LET configuration == FindById(configs, id)
        r == ValidateData(schemas, validators, The(configuration).schemaId,
                          The(configuration).data)
    IN  IF configuration = {} THEN Throw("config_not_found")
        ELSE Out(schemas, configs, r.V, nextSid, nextCid, r.err, {}, 0, r.valid, <<>>)

\* ------------------------------------------------------------ requests
\* The ids a request can name: those in the store and one that is absent.
SchemaGroupIds == {s.schemaId : s \in schemas} \cup {NoSchemaId}
SchemaObjectIds == {s.id : s \in schemas} \cup {c.schemaId : c \in configs} \cup {NoSid}
ConfigGroupIds == {c.configId : c \in configs} \cup {NoConfigId}
ConfigObjectIds == {c.id : c \in configs} \cup {NoCid}
SchemaVersions == {s.version : s \in schemas} \cup {0}
ConfigVersions == {c.version : c \in configs} \cup {0}
ExistingConfigGroupIds == {c.configId : c \in configs}
ExistingSchemaGroupIds == {s.schemaId : s \in schemas}

\* A request is a handler applied to inputs drawn from the given sets; `limit`
\* bounds the documents ever inserted.
ReqCreateSchema(names, types, docs, limit) ==
    /\ nextSid <= limit
    /\ \E name \in names, type \in types, doc \in docs : Apply(CreateSchema(name, type, doc))

ReqUpdateSchema(names, types, docs, limit) ==
    /\ nextSid <= limit
    /\ \E schemaId \in SchemaGroupIds,
          updates \in [name : Opt(names), type : Opt(types), schema : Opt(docs)] :
           Apply(UpdateSchemaBySchemaId(schemaId, updates))

ReqSetActiveSchema ==
    \E schemaId \in SchemaGroupIds, version \in SchemaVersions :
        Apply(SchemaSetActiveVersion(schemaId, version))

ReqDeleteSchema == \E id \in SchemaObjectIds : Apply(DeleteSchema(id))

ReqDeleteSchemaGroup ==
    \E schemaId \in SchemaGroupIds : Apply(SchemaDeleteAllVersionsBySchemaId(schemaId))

ReqValidateData ==
    \E schemaId \in SchemaGroupIds, data \in DataValues : Apply(SchemaValidateData(schemaId, data))

ReqValidateDataByVersion ==
    \E schemaId \in SchemaGroupIds, version \in SchemaVersions, data \in DataValues :
        Apply(SchemaValidateDataByVersion(schemaId, version, data))

ReqCreateConfiguration(names, types, limit) ==
    /\ nextCid <= limit
    /\ \E name \in names, type \in types, schemaId \in SchemaObjectIds, data \in DataValues :
           Apply(CreateConfiguration(name, type, schemaId, data))

ReqUpdateConfiguration(names, types, schemaIds, limit) ==
    /\ nextCid <= limit
    /\ \E configId \in ConfigGroupIds,
          updates \in [name : Opt(names), type : Opt(types),
                       schemaId : Opt(schemaIds), data : Opt(DataValues)] :
           Apply(UpdateConfigurationByConfigId(configId, updates))

ReqSetActiveConfiguration ==
    \E configId \in ConfigGroupIds, version \in ConfigVersions :
        Apply(ConfigSetActiveVersion(configId, version))

ReqDeleteConfiguration == \E id \in ConfigObjectIds : Apply(DeleteConfiguration(id))

ReqDeleteAllConfigurations == Apply(DeleteAllConfigurations)

ReqValidateConfiguration == \E id \in ConfigObjectIds : Apply(ValidateConfiguration(id))

\* ------------------------------------------------------------ serialized requests
\* Every handler, one request at a time, over one name and one type.
CoreNames == {"a"}
CoreTypes == {"signal"}
CoreDocs == {DocX, DocXY, DocInvalid}
ValidDocs == {DocX, DocXY}

Next ==
    \/ ReqCreateSchema(CoreNames, CoreTypes, CoreDocs, MaxSchemas)
    \/ ReqUpdateSchema(CoreNames, CoreTypes, CoreDocs, MaxSchemas)
    \/ ReqSetActiveSchema
    \/ ReqDeleteSchema
    \/ ReqDeleteSchemaGroup
    \/ ReqValidateData
    \/ ReqValidateDataByVersion
    \/ ReqCreateConfiguration(CoreNames, CoreTypes, MaxConfigs)
    \/ ReqUpdateConfiguration({}, {}, SchemaObjectIds, MaxConfigs)
    \/ ReqSetActiveConfiguration
    \/ ReqDeleteConfiguration
    \/ ReqDeleteAllConfigurations
    \/ ReqValidateConfiguration

Spec == Init /\ [][Next]_vars

\* The create, revise and activate handlers alone (nothing is deleted), with room
\* for a configuration group of MaxVersions versions; a revise keeps the pinned
\* schema version.
NextVersions ==
    \/ ReqCreateSchema(CoreNames, CoreTypes, ValidDocs, MaxSchemas)
    \/ ReqUpdateSchema({}, {}, ValidDocs, MaxSchemas)
    \/ ReqSetActiveSchema
    \/ ReqCreateConfiguration(CoreNames, CoreTypes, MaxVersions)
    \/ ReqUpdateConfiguration({}, {}, {}, MaxVersions)
    \/ ReqSetActiveConfiguration

SpecVersions == Init /\ [][NextVersions]_vars

\* ------------------------------------------------------------ interleaved revises
\* Two requests p run updateConfigurationByConfigId one await at a time:
\*   idle -> check -> next -> deactivate -> insert -> idle
\* loc[p] holds the call's locals.  The reads of the schema collection between the
\* immutability checks and the validation are one step: no step here changes or
\* removes a schema document.  raced collects the groups on which two calls were
\* in progress at once (history, not program state).
InFlight(p) == pc[p] # "idle"
Other(p) == CHOOSE q \in Procs : q # p
Running == Cardinality({p \in Procs : InFlight(p)})

UpdateStart(p, configId, updates) ==
    LET existing == FindActiveByConfigId(configs, configId)
        q == Other(p)
    IN  /\ pc[p] = "idle"
        /\ nextCid + Running <= MaxVersions
        /\ existing # {}
        /\ pc' = [pc EXCEPT ![p] = "check"]
        /\ loc' = [loc EXCEPT ![p] = [configId |-> configId, updates |-> updates,
                                      existing |-> The(existing)]]
        /\ raced' = IF InFlight(q) /\ loc[q].configId = configId
                    THEN raced \cup {configId} ELSE raced
        /\ UNCHANGED <<schemas, configs, validators, nextSid, nextCid>>

UpdateCheck(p) ==
    LET chk == CheckConfigurationUpdate(schemas, validators, loc[p].existing, loc[p].updates)
    IN  /\ pc[p] = "check"
        /\ validators' = chk.V
        /\ IF chk.err # ""
           THEN pc' = [pc EXCEPT ![p] = "idle"] /\ loc' = [loc EXCEPT ![p] = <<>>]
           ELSE /\ pc' = [pc EXCEPT ![p] = "next"]
                /\ loc' = [loc EXCEPT ![p] = [configId |-> loc[p].configId,
                                              existing |-> loc[p].existing,
                                              schemaId |-> chk.schemaId, data |-> chk.data]]
        /\ UNCHANGED <<schemas, configs, nextSid, nextCid, raced>>

UpdateGetNextVersion(p) ==
    /\ pc[p] = "next"
    /\ pc' = [pc EXCEPT ![p] = "deactivate"]
    /\ loc' = [loc EXCEPT ![p] = [configId |-> loc[p].configId, existing |-> loc[p].existing,
                                  schemaId |-> loc[p].schemaId, data |-> loc[p].data,
                                  nextVersion |-> ConfigGetNextVersion(configs, loc[p].configId)]]
    /\ UNCHANGED <<schemas, configs, validators, nextSid, nextCid, raced>>

UpdateDeactivate(p) ==
    /\ pc[p] = "deactivate"
    /\ configs' = SetAllInactiveByConfigId(configs, loc[p].configId)
    /\ pc' = [pc EXCEPT ![p] = "insert"]
    /\ UNCHANGED <<schemas, validators, nextSid, nextCid, loc, raced>>

UpdateInsert(p) ==
    /\ pc[p] = "insert"
    /\ configs' = configs \cup {NewConfigurationVersion(nextCid, loc[p].existing,
                                    loc[p].configId, loc[p].nextVersion,
                                    loc[p].schemaId, loc[p].data)}
    /\ nextCid' = nextCid + 1
    /\ pc' = [pc EXCEPT ![p] = "idle"]
    /\ loc' = [loc EXCEPT ![p] = <<>>]
    /\ UNCHANGED <<schemas, validators, nextSid, raced>>

ConcStart ==
    \E p \in Procs, configId \in ExistingConfigGroupIds,
       updates \in [name : {Undefined}, type : {Undefined}, schemaId : {Undefined},
                    data : Opt(DataValues)] :
        UpdateStart(p, configId, updates)
ConcCheck == \E p \in Procs : UpdateCheck(p)
ConcGetNextVersion == \E p \in Procs : UpdateGetNextVersion(p)
ConcDeactivate == \E p \in Procs : UpdateDeactivate(p)
ConcInsert == \E p \in Procs : UpdateInsert(p)

NextConc ==
    \/ ReqCreateSchema(CoreNames, CoreTypes, ValidDocs, MaxSchemas)
    \/ ReqCreateConfiguration(CoreNames, CoreTypes, MaxVersions - Cardinality(Procs))
    \/ ConcStart
    \/ ConcCheck
    \/ ConcGetNextVersion
    \/ ConcDeactivate
    \/ ConcInsert

SpecConc == Init /\ [][NextConc]_vars

\* ------------------------------------------------------------ interrupted revise
\* updateSchemaBySchemaId one await at a time, one request at a time:
\*   idle -> s_next -> s_deactivate -> s_insert -> idle
\* The process may stop between setAllInactiveBySchemaId and create (s_insert ->
\* crashed); Restart brings it back.  loc[p].before keeps the versions the group
\* had when the call started (history, not program state).
Quiet == \A p \in Procs : pc[p] = "idle"

SchemaUpdateStart(p, schemaId, updates) ==
    LET existing == FindActiveBySchemaId(schemas, schemaId)
        newSchema == IF updates.schema # Undefined THEN updates.schema[1]
                     ELSE The(existing).schema
    IN  /\ Quiet
        /\ nextSid <= MaxVersions
        /\ updates.name = Undefined
        /\ existing # {}
        /\ ValidateSchema(newSchema)
        /\ pc' = [pc EXCEPT ![p] = "s_next"]
        /\ loc' = [loc EXCEPT ![p] = [schemaId |-> schemaId, existing |-> The(existing),
                                      updates |-> updates, newSchema |-> newSchema,
                                      nextVersion |-> 0,
                                      before |-> FindAllVersionsBySchemaId(schemas, schemaId)]]
        /\ UNCHANGED <<schemas, configs, validators, nextSid, nextCid, raced>>

SchemaUpdateGetNextVersion(p) ==
    /\ pc[p] = "s_next"
    /\ pc' = [pc EXCEPT ![p] = "s_deactivate"]
    /\ loc' = [loc EXCEPT ![p].nextVersion = SchemaGetNextVersion(schemas, loc[p].schemaId)]
    /\ UNCHANGED <<schemas, configs, validators, nextSid, nextCid, raced>>

SchemaUpdateDeactivate(p) ==
    /\ pc[p] = "s_deactivate"
    /\ schemas' = SetAllInactiveBySchemaId(schemas, loc[p].schemaId)
    /\ pc' = [pc EXCEPT ![p] = "s_insert"]
    /\ UNCHANGED <<configs, validators, nextSid, nextCid, loc, raced>>

SchemaUpdateInsert(p) ==
    LET l == loc[p]
        newVersion == [id |-> Sid(nextSid), schemaId |-> l.schemaId,
                       version |-> l.nextVersion, active |-> TRUE,
                       type |-> IF l.updates.type # Undefined THEN l.updates.type[1]
                                ELSE l.existing.type,
                       name |-> l.existing.name, schema |-> l.newSchema]
        \* the unique index on (schemaId, version) rejects the insert
        duplicateKey == \E s \in schemas : s.schemaId = l.schemaId /\ s.version = l.nextVersion
    IN  /\ pc[p] = "s_insert"
        /\ schemas' = IF duplicateKey THEN schemas ELSE schemas \cup {newVersion}
        /\ nextSid' = IF duplicateKey THEN nextSid ELSE nextSid + 1
        /\ validators' = IF ~duplicateKey /\ Compiles(l.newSchema)
                         THEN ValidatorsSet(validators, newVersion.id, l.newSchema)
                         ELSE validators
        /\ pc' = [pc EXCEPT ![p] = "idle"]
        /\ loc' = [loc EXCEPT ![p] = <<>>]
        /\ UNCHANGED <<configs, nextCid, raced>>

SchemaUpdateCrash(p) ==
    /\ pc[p] = "s_insert"
    /\ pc' = [pc EXCEPT ![p] = "crashed"]
    /\ UNCHANGED <<schemas, configs, validators, nextSid, nextCid, loc, raced>>

Restart(p) ==
    /\ pc[p] = "crashed"
    /\ pc' = [pc EXCEPT ![p] = "idle"]
    /\ loc' = [loc EXCEPT ![p] = <<>>]
    /\ UNCHANGED <<schemas, configs, validators, nextSid, nextCid, raced>>

CrashStart ==
    \E p \in Procs, schemaId \in ExistingSchemaGroupIds,
       updates \in [name : {Undefined}, type : {Undefined}, schema : Opt(ValidDocs)] :
        SchemaUpdateStart(p, schemaId, updates)
CrashGetNextVersion == \E p \in Procs : SchemaUpdateGetNextVersion(p)
CrashDeactivate == \E p \in Procs : SchemaUpdateDeactivate(p)
CrashInsert == \E p \in Procs : SchemaUpdateInsert(p)
CrashStop == \E p \in Procs : SchemaUpdateCrash(p)
CrashRestart == \E p \in Procs : Restart(p)
QuietCreateSchema == Quiet /\ ReqCreateSchema(CoreNames, CoreTypes, ValidDocs, MaxVersions)
QuietSetActiveSchema == Quiet /\ ReqSetActiveSchema
QuietValidateData == Quiet /\ ReqValidateData

NextCrash ==
    \/ QuietCreateSchema
    \/ QuietSetActiveSchema
    \/ QuietValidateData
    \/ CrashStart
    \/ CrashGetNextVersion
    \/ CrashDeactivate
    \/ CrashInsert
    \/ CrashStop
    \/ CrashRestart

SpecCrash == Init /\ [][NextCrash]_vars

\* ------------------------------------------------------------ names and types
\* Register and revise requests over both types and over names that differ in case
\* only; nothing is deleted.
CaseNames == {"a", "A"}

NextTypes ==
    \/ ReqCreateSchema(CaseNames, VALID_TYPES, {DocX}, MaxVersions)
    \/ ReqUpdateSchema({}, VALID_TYPES, {DocXY}, MaxVersions)
    \/ ReqCreateConfiguration(CaseNames, VALID_TYPES, MaxConfigs)
    \/ ReqUpdateConfiguration({}, VALID_TYPES, SchemaObjectIds, MaxConfigs)

SpecTypes == Init /\ [][NextTypes]_vars

\* ------------------------------------------------------------ re-pointing
\* Register and revise requests over both types, where a configuration revise may
\* name any schema version as its new target; nothing is deleted.
NextRepoint ==
    \/ ReqCreateSchema(CoreNames, VALID_TYPES, ValidDocs, MaxVersions)
    \/ ReqUpdateSchema({}, {}, ValidDocs, MaxVersions)
    \/ ReqCreateConfiguration(CoreNames, VALID_TYPES, MaxConfigs)
    \/ ReqUpdateConfiguration({}, {}, SchemaObjectIds, MaxConfigs)

SpecRepoint == Init /\ [][NextRepoint]_vars

\* ------------------------------------------------------------ publisher states
\* The handlers that notify, each called with the publisher in any of its states.
Notifying(o) == \E channel \in ChannelStates : Apply(Notify(channel, o))

NotifyCreateSchema ==
    /\ nextSid <= MaxSchemas
    /\ \E name \in CoreNames, type \in CoreTypes, doc \in ValidDocs :
           Notifying(CreateSchema(name, type, doc))
NotifyUpdateSchema ==
    /\ nextSid <= MaxSchemas
    /\ \E schemaId \in SchemaGroupIds,
          updates \in [name : {Undefined}, type : {Undefined}, schema : Opt(ValidDocs)] :
           Notifying(UpdateSchemaBySchemaId(schemaId, updates))
NotifyDeleteSchemaGroup ==
    \E schemaId \in SchemaGroupIds : Notifying(SchemaDeleteAllVersionsBySchemaId(schemaId))
NotifyCreateConfiguration ==
    /\ nextCid <= MaxConfigs
    /\ \E name \in CoreNames, type \in CoreTypes, schemaId \in SchemaObjectIds,
          data \in DataValues :
           Notifying(CreateConfiguration(name, type, schemaId, data))
NotifyUpdateConfiguration ==
    /\ nextCid <= MaxConfigs
    /\ \E configId \in ConfigGroupIds,
          updates \in [name : {Undefined}, type : {Undefined}, schemaId : {Undefined},
                       data : Opt(DataValues)] :
           Notifying(UpdateConfigurationByConfigId(configId, updates))
NotifySetActiveConfiguration ==
    \E configId \in ConfigGroupIds, version \in ConfigVersions :
        Notifying(ConfigSetActiveVersion(configId, version))
NotifyDeleteConfiguration == \E id \in ConfigObjectIds : Notifying(DeleteConfiguration(id))
NotifyDeleteAllConfigurations == Notifying(DeleteAllConfigurations)

NextNotify ==
    \/ NotifyCreateSchema
    \/ NotifyUpdateSchema
    \/ NotifyDeleteSchemaGroup
    \/ NotifyCreateConfiguration
    \/ NotifyUpdateConfiguration
    \/ NotifySetActiveConfiguration
    \/ NotifyDeleteConfiguration
    \/ NotifyDeleteAllConfigurations

SpecNotify == Init /\ [][NextNotify]_vars

\* ------------------------------------------------------------ interleaved calls
\* Two requests p run, one await at a time, a revise of a schema group
\* (idle -> s_next -> s_deactivate -> s_insert -> idle), createSchema
\* (idle -> c_insert -> idle), createConfiguration
\* (idle -> cc_name -> cc_validate -> cc_insert -> idle) or
\* deleteAllVersionsBySchemaId (idle -> d_find -> d_delete -> idle).  A call that
\* throws goes back to idle.
SchemaUpdateBegin(p, schemaId, updates) ==
    LET existing == FindActiveBySchemaId(schemas, schemaId)
        newSchema == IF updates.schema # Undefined THEN updates.schema[1]
                     ELSE The(existing).schema
    IN  /\ pc[p] = "idle"
        /\ nextSid + Running <= MaxVersions
        /\ updates.name = Undefined
        /\ existing # {}
        /\ ValidateSchema(newSchema)
        /\ pc' = [pc EXCEPT ![p] = "s_next"]
        /\ loc' = [loc EXCEPT ![p] = [schemaId |-> schemaId, existing |-> The(existing),
                                      updates |-> updates, newSchema |-> newSchema,
                                      nextVersion |-> 0,
                                      before |-> FindAllVersionsBySchemaId(schemas, schemaId)]]
        /\ UNCHANGED <<schemas, configs, validators, nextSid, nextCid, raced>>

CreateSchemaStart(p, name, type, doc) ==
    /\ pc[p] = "idle"
    /\ nextSid + Running <= MaxVersions
    /\ ValidateSchema(doc)
    /\ FindByNameAndType(schemas, name, type) = {}
    /\ pc' = [pc EXCEPT ![p] = "c_insert"]
    /\ loc' = [loc EXCEPT ![p] = [name |-> name, type |-> type, schema |-> doc]]
    /\ UNCHANGED <<schemas, configs, validators, nextSid, nextCid, raced>>

\* the generated schemaId is new: findBySchemaIdAndVersion finds nothing and
\* setAllInactiveBySchemaId changes nothing
CreateSchemaInsert(p) ==
    LET l == loc[p]
        schema == [id |-> Sid(nextSid), schemaId |-> GenerateSchemaId(nextSid),
                   version |-> 1, active |-> TRUE, type |-> l.type, name |-> l.name,
                   schema |-> l.schema]
    IN  /\ pc[p] = "c_insert"
        /\ schemas' = schemas \cup {schema}
        /\ validators' = CompileAndCache(validators, schema.id, l.schema)
        /\ nextSid' = nextSid + 1
        /\ pc' = [pc EXCEPT ![p] = "idle"]
        /\ loc' = [loc EXCEPT ![p] = <<>>]
        /\ UNCHANGED <<configs, nextCid, raced>>

CreateConfigurationStart(p, name, type, schemaId, data) ==
    LET schema == FindById(schemas, schemaId)
    IN  /\ pc[p] = "idle"
        /\ nextCid + Running <= MaxConfigs
        /\ schema # {}
        /\ pc' = [pc EXCEPT ![p] = "cc_name"]
        /\ loc' = [loc EXCEPT ![p] = [name |-> name, type |-> type, schemaId |-> schemaId,
                                      data |-> data, schema |-> The(schema)]]
        /\ UNCHANGED <<schemas, configs, validators, nextSid, nextCid, raced>>

CreateConfigurationCheckName(p) ==
    LET l == loc[p]
        refused == \/ FindByNameAndSchemaId(configs, l.name, l.schemaId) # {}
                   \/ l.type # l.schema.type
    IN  /\ pc[p] = "cc_name"
        /\ pc' = [pc EXCEPT ![p] = IF refused THEN "idle" ELSE "cc_validate"]
        /\ loc' = [loc EXCEPT ![p] = IF refused THEN <<>> ELSE l]
        /\ UNCHANGED <<schemas, configs, validators, nextSid, nextCid, raced>>

CreateConfigurationValidate(p) ==
    LET l == loc[p]
        validation == ValidateDataByVersion(schemas, validators, l.schema.schemaId,
                                            l.schema.version, l.data)
        refused == validation.err # "" \/ validation.valid # "true"
    IN  /\ pc[p] = "cc_validate"
        /\ validators' = validation.V
        /\ pc' = [pc EXCEPT ![p] = IF refused THEN "idle" ELSE "cc_insert"]
        /\ loc' = [loc EXCEPT ![p] = IF refused THEN <<>> ELSE l]
        /\ UNCHANGED <<schemas, configs, nextSid, nextCid, raced>>

CreateConfigurationInsert(p) ==
    LET l == loc[p]
        configuration == [id |-> Cid(nextCid), configId |-> GenerateConfigId(nextCid),
                          version |-> 1, active |-> TRUE, schemaId |-> l.schemaId,
                          type |-> l.type, name |-> l.name, data |-> l.data]
    IN  /\ pc[p] = "cc_insert"
        /\ configs' = configs \cup {configuration}
        /\ nextCid' = nextCid + 1
        /\ pc' = [pc EXCEPT ![p] = "idle"]
        /\ loc' = [loc EXCEPT ![p] = <<>>]
        /\ UNCHANGED <<schemas, validators, nextSid, raced>>

DeleteGroupStart(p, schemaId) ==
    /\ pc[p] = "idle"
    /\ GetConfigurationsBySchemaId(configs, schemaId) = {}
    /\ pc' = [pc EXCEPT ![p] = "d_find"]
    /\ loc' = [loc EXCEPT ![p] = [schemaId |-> schemaId, versions |-> {}]]
    /\ UNCHANGED <<schemas, configs, validators, nextSid, nextCid, raced>>

DeleteGroupFind(p) ==
    /\ pc[p] = "d_find"
    /\ pc' = [pc EXCEPT ![p] = "d_delete"]
    /\ loc' = [loc EXCEPT ![p].versions = FindAllVersionsBySchemaId(schemas, loc[p].schemaId)]
    /\ UNCHANGED <<schemas, configs, validators, nextSid, nextCid, raced>>

DeleteGroupDelete(p) ==
    /\ pc[p] = "d_delete"
    /\ schemas' = DeleteAllVersionsBySchemaId(schemas, loc[p].schemaId)
    /\ validators' = {v \in validators : \A s \in loc[p].versions : s.id # v.id}
    /\ pc' = [pc EXCEPT ![p] = "idle"]
    /\ loc' = [loc EXCEPT ![p] = <<>>]
    /\ UNCHANGED <<configs, nextSid, nextCid, raced>>

RaceUpdateSchema ==
    \E p \in Procs, schemaId \in ExistingSchemaGroupIds,
       updates \in [name : {Undefined}, type : {Undefined}, schema : Opt(ValidDocs)] :
        SchemaUpdateBegin(p, schemaId, updates)
RaceGetNextVersion == \E p \in Procs : SchemaUpdateGetNextVersion(p)
RaceDeactivate == \E p \in Procs : SchemaUpdateDeactivate(p)
RaceInsert == \E p \in Procs : SchemaUpdateInsert(p)
RaceCreateSchema ==
    \E p \in Procs, name \in CaseNames, type \in CoreTypes :
        CreateSchemaStart(p, name, type, DocX)
RaceCreateSchemaInsert == \E p \in Procs : CreateSchemaInsert(p)
RaceCreateConfiguration ==
    \E p \in Procs, schemaId \in SchemaObjectIds, type \in CoreTypes, data \in DataValues :
        \E name \in CoreNames : CreateConfigurationStart(p, name, type, schemaId, data)
RaceCheckName == \E p \in Procs : CreateConfigurationCheckName(p)
RaceValidate == \E p \in Procs : CreateConfigurationValidate(p)
RaceCreateConfigurationInsert == \E p \in Procs : CreateConfigurationInsert(p)
RaceDeleteGroup == \E p \in Procs, schemaId \in ExistingSchemaGroupIds : DeleteGroupStart(p, schemaId)
RaceDeleteGroupFind == \E p \in Procs : DeleteGroupFind(p)
RaceDeleteGroupDelete == \E p \in Procs : DeleteGroupDelete(p)

NextRace ==
    \/ RaceUpdateSchema
    \/ RaceGetNextVersion
    \/ RaceDeactivate
    \/ RaceInsert
    \/ RaceCreateSchema
    \/ RaceCreateSchemaInsert
    \/ RaceCreateConfiguration
    \/ RaceCheckName
    \/ RaceValidate
    \/ RaceCreateConfigurationInsert
    \/ RaceDeleteGroup
    \/ RaceDeleteGroupFind
    \/ RaceDeleteGroupDelete

SpecRace == Init /\ [][NextRace]_vars

\* ------------------------------------------------------------ ConfigLoader
\* A schemaId written in a file; no generated id equals it.
FileSchemaId == <<"schema", -1>>

\* PreconfiguredSchema entries: version, active and schemaId are optional
PreconfiguredSchemas ==
    [name : {"a", "b"}, type : CoreTypes, schema : {DocX}, version : Opt({2}),
     active : {Undefined}, schemaId : {NoSchemaId, FileSchemaId}]

\* PreconfiguredConfiguration entries: schemaVersion is optional
PreconfiguredConfigurations ==
    [schemaName : {"a"}, type : CoreTypes, name : {"a"}, data : {{}, {"x"}},
     schemaVersion : Opt({2})]

SeqsUpTo(S, n) == UNION {[1..k -> S] : k \in 0..n}

\* the parsed contents of the schema files and of the configuration files
InputFiles ==
    {f \in [schemas : SeqsUpTo(PreconfiguredSchemas, MaxItems),
            configurations : SeqsUpTo(PreconfiguredConfigurations, MaxItems)] :
        Len(f.schemas) + Len(f.configurations) <= MaxItems}

\* one turn of the loop of loadSchemas; what createSchemaWithVersion throws is
\* logged and the loop goes on
LoadSchema(schemaData) ==
    LET version == IF schemaData.version = Undefined THEN 1 ELSE schemaData.version[1]
        active == IF schemaData.active = Undefined THEN version = 1
                  ELSE schemaData.active[1]
        existing == FindByNameAndType(schemas, schemaData.name, schemaData.type)
        schemaId == IF schemaData.schemaId # NoSchemaId THEN schemaData.schemaId
                    ELSE IF existing # {} THEN The(existing).schemaId
                    ELSE NoSchemaId
        \* getSchemaBySchemaIdAndVersion caches the validator of the version it finds
        known == IF schemaId = NoSchemaId THEN {}
                 ELSE FindBySchemaIdAndVersion(schemas, schemaId, version)
    IN  IF schemaData.name = "" THEN Throw("missing_fields")
        ELSE IF known # {}
        THEN Out(schemas, configs,
                 CompileAndCache(validators, The(known).id, The(known).schema),
                 nextSid, nextCid, "already_exists", {}, 0, "na", <<>>)
        ELSE CreateSchemaWithVersion(schemaData.name, schemaData.type, schemaData.schema,
                                     version, active, schemaId)

\* one turn of the loop of loadConfigurations. The document is inserted through the
\* repository with schemaId, type, name and data only: it carries no configId, no
\* version and no active flag, so that no query on these fields matches it.
LoadConfiguration(configData) ==
    LET found == First({s \in schemas : s.name = configData.schemaName
                                        /\ s.type = configData.type})
        pinned == configData.schemaVersion # Undefined
        schema == IF found = {} THEN {}
                  ELSE IF pinned
                  THEN FindBySchemaIdAndVersion(schemas, The(found).schemaId,
                                                configData.schemaVersion[1])
                  ELSE FindActiveBySchemaId(schemas, The(found).schemaId)
        sc == The(schema)
        \* getSchemaBySchemaIdAndVersion and getActiveSchemaBySchemaId cache the
        \* validator of the version they find
        cached == CompileAndCache(validators, sc.id, sc.schema)
        validation == IF pinned
                      THEN ValidateDataByVersion(schemas, cached, sc.schemaId,
                                                 configData.schemaVersion[1], configData.data)
                      ELSE ValidateData(schemas, cached, sc.schemaId, configData.data)
        Skip(err) == Out(schemas, configs, cached, nextSid, nextCid, err, {}, 0, "na", <<>>)
        configuration == [id |-> Cid(nextCid), configId |-> NoConfigId, version |-> 0,
                          active |-> FALSE, schemaId |-> sc.id, type |-> configData.type,
                          name |-> configData.name, data |-> configData.data]
    IN  IF configData.schemaName = "" \/ configData.name = "" THEN Throw("missing_fields")
        ELSE IF found = {} THEN Throw("schema_not_found")
        ELSE IF schema = {} THEN Throw("version_not_found")
        ELSE IF FindByNameAndSchemaId(configs, configData.name, sc.id) # {}
        THEN Skip("already_exists")
        ELSE IF validation.err # "" THEN Skip(validation.err)
        ELSE IF validation.valid # "true"
        THEN Out(schemas, configs, validation.V, nextSid, nextCid, "invalid_data", {}, 0,
                 "na", <<>>)
        ELSE Out(schemas, configs \cup {configuration}, validation.V, nextSid, nextCid + 1,
                 "", {configuration}, 0, "na", <<>>)

\* The loader runs when the process starts, before any request is served: the
\* validator cache of the process is empty. loc[p] keeps the files, the entries
\* still to load and, once the first run is over, the store it left.
Commit(o) ==
    /\ schemas' = o.schemas
    /\ configs' = o.configs
    /\ validators' = o.validators
    /\ nextSid' = o.nextSid
    /\ nextCid' = o.nextCid

Initialize(p, files) ==
    /\ Quiet
    /\ nextSid + Len(files.schemas) <= MaxVersions + 1
    /\ nextCid + Len(files.configurations) <= MaxConfigs + 1
    /\ pc' = [pc EXCEPT ![p] = "loadSchemas"]
    /\ loc' = [loc EXCEPT ![p] = [files |-> files, rest |-> files.schemas,
                                  first |-> TRUE, after |-> <<>>]]
    /\ validators' = {}
    /\ UNCHANGED <<schemas, configs, nextSid, nextCid, raced>>

LoadSchemasTurn(p) ==
    /\ pc[p] = "loadSchemas"
    /\ loc[p].rest # <<>>
    /\ Commit(LoadSchema(Head(loc[p].rest)))
    /\ loc' = [loc EXCEPT ![p].rest = Tail(loc[p].rest)]
    /\ UNCHANGED <<pc, raced>>

LoadSchemasEnd(p) ==
    /\ pc[p] = "loadSchemas"
    /\ loc[p].rest = <<>>
    /\ pc' = [pc EXCEPT ![p] = "loadConfigurations"]
    /\ loc' = [loc EXCEPT ![p].rest = loc[p].files.configurations]
    /\ UNCHANGED <<schemas, configs, validators, nextSid, nextCid, raced>>

LoadConfigurationsTurn(p) ==
    /\ pc[p] = "loadConfigurations"
    /\ loc[p].rest # <<>>
    /\ Commit(LoadConfiguration(Head(loc[p].rest)))
    /\ loc' = [loc EXCEPT ![p].rest = Tail(loc[p].rest)]
    /\ UNCHANGED <<pc, raced>>

LoadConfigurationsEnd(p) ==
    /\ pc[p] = "loadConfigurations"
    /\ loc[p].rest = <<>>
    /\ pc' = [pc EXCEPT ![p] = IF loc[p].first THEN "loaded" ELSE "reloaded"]
    /\ loc' = [loc EXCEPT ![p].after = IF loc[p].first THEN <<schemas, configs>>
                                       ELSE loc[p].after]
    /\ UNCHANGED <<schemas, configs, validators, nextSid, nextCid, raced>>

\* the process is started again over the same files
InitializeAgain(p) ==
    /\ pc[p] = "loaded"
    /\ pc' = [pc EXCEPT ![p] = "loadSchemas"]
    /\ loc' = [loc EXCEPT ![p].rest = loc[p].files.schemas, ![p].first = FALSE]
    /\ validators' = {}
    /\ UNCHANGED <<schemas, configs, nextSid, nextCid, raced>>

\* the loader is one sequential task of the starting process
Starter == CHOOSE p \in Procs : TRUE

LoaderInitialize == \E files \in InputFiles : Initialize(Starter, files)
LoaderLoadSchemas == LoadSchemasTurn(Starter)
LoaderSchemasLoaded == LoadSchemasEnd(Starter)
LoaderLoadConfigurations == LoadConfigurationsTurn(Starter)
LoaderConfigurationsLoaded == LoadConfigurationsEnd(Starter)
LoaderInitializeAgain == InitializeAgain(Starter)

NextLoader ==
    \/ QuietCreateSchema
    \/ QuietSetActiveSchema
    \/ LoaderInitialize
    \/ LoaderLoadSchemas
    \/ LoaderSchemasLoaded
    \/ LoaderLoadConfigurations
    \/ LoaderConfigurationsLoaded
    \/ LoaderInitializeAgain

SpecLoader == Init /\ [][NextLoader]_vars

\* ------------------------------------------------------------ assigned numbers
\* Serialized requests whose inserts are recorded: loc[Starter] lists, in the order
\* of creation, the group and the version number of every version ever inserted
\* (history, not program state).
Inserted(o) ==
    LET S == {s \in o.schemas : FindById(schemas, s.id) = {}}
        C == {c \in o.configs : FindById(configs, c.id) = {}}
    IN  IF S # {} THEN <<[group |-> The(S).schemaId, version |-> The(S).version]>>
        ELSE IF C # {} THEN <<[group |-> The(C).configId, version |-> The(C).version]>>
        ELSE <<>>

Recorded(o) ==
    /\ Commit(o)
    /\ loc' = [loc EXCEPT ![Starter] = loc[Starter] \o Inserted(o)]
    /\ UNCHANGED <<pc, raced>>

NoUpdates == [name |-> Undefined, type |-> Undefined, schema |-> Undefined]

RecCreateSchema ==
    /\ nextSid <= MaxVersions
    /\ \E name \in CoreNames, type \in CoreTypes : Recorded(CreateSchema(name, type, DocX))
RecUpdateSchema ==
    /\ nextSid <= MaxVersions
    /\ \E schemaId \in SchemaGroupIds : Recorded(UpdateSchemaBySchemaId(schemaId, NoUpdates))
RecSetActiveSchema ==
    \E schemaId \in SchemaGroupIds, version \in SchemaVersions :
        Recorded(SchemaSetActiveVersion(schemaId, version))
RecDeleteSchema == \E id \in SchemaObjectIds : Recorded(DeleteSchema(id))
RecCreateConfiguration ==
    /\ nextCid <= MaxVersions
    /\ \E name \in CoreNames, type \in CoreTypes, schemaId \in SchemaObjectIds :
           Recorded(CreateConfiguration(name, type, schemaId, {"x"}))
RecUpdateConfiguration ==
    /\ nextCid <= MaxVersions
    /\ \E configId \in ConfigGroupIds :
           Recorded(UpdateConfigurationByConfigId(configId,
               [name |-> Undefined, type |-> Undefined, schemaId |-> Undefined,
                data |-> Some({"x", "y"})]))
RecSetActiveConfiguration ==
    \E configId \in ConfigGroupIds, version \in ConfigVersions :
        Recorded(ConfigSetActiveVersion(configId, version))
RecDeleteConfiguration == \E id \in ConfigObjectIds : Recorded(DeleteConfiguration(id))

NextRecorded ==
    \/ RecCreateSchema
    \/ RecUpdateSchema
    \/ RecSetActiveSchema
    \/ RecDeleteSchema
    \/ RecCreateConfiguration
    \/ RecUpdateConfiguration
    \/ RecSetActiveConfiguration
    \/ RecDeleteConfiguration

SpecRecorded == Init /\ [][NextRecorded]_vars

\* ============================================================ claims
ActiveSchemas(g) == {s \in schemas : s.schemaId = g /\ s.active}
ActiveConfigs(g) == {c \in configs : c.configId = g /\ c.active}
ExistingSchemaGroups == {s.schemaId : s \in schemas}
ExistingConfigGroups == {c.configId : c \in configs}

\* C1: after any sequence of serialized create, revise and activate requests (and of
\* every other request), no schema group and no configuration group has two
\* versions with active = true.
C1_AtMostOneActive ==
    /\ \A g \in ExistingSchemaGroups : Cardinality(ActiveSchemas(g)) <= 1
    /\ \A g \in ExistingConfigGroups : Cardinality(ActiveConfigs(g)) <= 1

\* a revised schema group: two versions, the older one deactivated
C1_Witness ==
    \E g \in ExistingSchemaGroups :
        /\ Cardinality(FindAllVersionsBySchemaId(schemas, g)) = 2
        /\ Cardinality(ActiveSchemas(g)) = 1

\* C2: after every returned create, revise or activate request every group that has
\* a version has exactly one active version.
C2_ExactlyOneActive ==
    /\ \A g \in ExistingSchemaGroups : Cardinality(ActiveSchemas(g)) = 1
    /\ \A g \in ExistingConfigGroups : Cardinality(ActiveConfigs(g)) = 1

\* configuration versions (active or not) pinned to a version of schema group g
ReferencingConfigurations(g) ==
    {c \in configs : \E s \in FindAllVersionsBySchemaId(schemas, g) : c.schemaId = s.id}

\* C3: retiring a schema group that a configuration references throws, reports the
\* number of references and deletes nothing; retiring an unreferenced group removes
\* all its versions, so that getActive and getByVersion find nothing.
C3_RetireGuarded ==
    \A g \in ExistingSchemaGroups :
        LET o == SchemaDeleteAllVersionsBySchemaId(g)
            refs == ReferencingConfigurations(g)
        IN  IF refs # {}
            THEN o.err = "referenced" /\ o.count = Cardinality(refs) /\ o.schemas = schemas
            ELSE /\ o.err = ""
                 /\ FindActiveBySchemaId(o.schemas, g) = {}
                 /\ \A v \in SchemaVersions : FindBySchemaIdAndVersion(o.schemas, g, v) = {}

\* C4: every configuration version is pinned to a schema version that exists.
C4_NoDanglingReference ==
    \A c \in configs : \E s \in schemas : s.id = c.schemaId

\* C5: the data of every configuration version satisfies the document of the schema
\* version it is pinned to.
C5_DataSatisfiesTarget ==
    \A c \in configs : \E s \in schemas : s.id = c.schemaId /\ RunValidator(s.schema, c.data)

\* the verdict of validating c's data against the version c is pinned to
PinnedVerdict(S, V, c) ==
    LET target == FindById(S, c.schemaId)
        r == ValidateDataByVersion(S, V, The(target).schemaId, The(target).version, c.data)
    IN  IF target = {} THEN <<"not_found", "na">> ELSE <<r.err, r.valid>>

\* the verdict validateConfiguration gives for c
ConfigurationVerdict(S, V, c) ==
    LET r == ValidateData(S, V, c.schemaId, c.data) IN <<r.err, r.valid>>

PinningKept(o) ==
    /\ o.configs = configs
    /\ \A c \in configs :
        /\ PinnedVerdict(o.schemas, o.validators, c) = PinnedVerdict(schemas, validators, c)
        /\ ConfigurationVerdict(o.schemas, o.validators, c)
               = ConfigurationVerdict(schemas, validators, c)

\* C6: revising a schema group or moving its active pointer changes no
\* configuration, and the verdict of validating any configuration against the
\* version it is pinned to is the same after the request as before it.
C6_PinningStable ==
    \A g \in SchemaGroupIds :
        /\ \A u \in [name : {Undefined}, type : {Undefined}, schema : Opt(CoreDocs)] :
               PinningKept(UpdateSchemaBySchemaId(g, u))
        /\ \A v \in SchemaVersions : PinningKept(SchemaSetActiveVersion(g, v))

\* a configuration pinned to a deactivated version A whose data the active version
\* B of the same group rejects
C6_Witness ==
    \E c \in configs : \E a \in schemas : \E b \in schemas :
        /\ a.id = c.schemaId /\ ~a.active
        /\ b.schemaId = a.schemaId /\ b.active
        /\ RunValidator(a.schema, c.data) /\ ~RunValidator(b.schema, c.data)
        /\ PinnedVerdict(schemas, validators, c) = <<"", "true">>

\* C7: validateConfiguration of a configuration created by createConfiguration
\* returns valid = true for as long as the schema version it is pinned to exists.
C7_RoundTrip ==
    \A c \in configs :
        (c.version = 1 /\ FindById(schemas, c.schemaId) # {})
            => LET o == ValidateConfiguration(c.id) IN o.err = "" /\ o.valid = "true"

\* C8: a revise that returns a new version gives it the number (highest number in
\* the group) + 1, whichever version is active.
C8_NextVersionIsMaxPlusOne ==
    /\ \A g \in ExistingSchemaGroups :
         \A u \in [name : {Undefined}, type : {Undefined}, schema : Opt(CoreDocs)] :
           LET o == UpdateSchemaBySchemaId(g, u)
               new == o.schemas \ {s \in o.schemas : \E t \in schemas : t.id = s.id}
           IN  \A n \in new :
                   n.version = Max({s.version : s \in FindAllVersionsBySchemaId(schemas, g)}) + 1
    /\ \A g \in ExistingConfigGroups :
         \A u \in [name : {Undefined}, type : {Undefined}, schemaId : {Undefined},
                   data : Opt(DataValues)] :
           LET o == UpdateConfigurationByConfigId(g, u)
               new == o.configs \ {c \in o.configs : \E d \in configs : d.id = c.id}
           IN  \A n \in new :
                   n.version = Max({c.version : c \in FindAllVersionsByConfigId(configs, g)}) + 1

\* a configuration group revised twice, the second time while version 1 was active:
\* versions 1, 2 and 3, where 3 carries the data of 1 and not of 2
C8_Witness ==
    \E g \in ExistingConfigGroups :
        \E c1 \in configs : \E c2 \in configs : \E c3 \in configs :
            /\ c1.configId = g /\ c2.configId = g /\ c3.configId = g
            /\ c1.version = 1 /\ c2.version = 2 /\ c3.version = 3
            /\ c3.active /\ c3.data = c1.data /\ c3.data # c2.data
            /\ c1.id[2] < c2.id[2] /\ c2.id[2] < c3.id[2]

\* C9: the referential guard counts inactive configuration versions too: a schema
\* group that some inactive configuration version is pinned to cannot be retired.
C9_GuardCountsInactive ==
    \A g \in ExistingSchemaGroups :
        LET o == SchemaDeleteAllVersionsBySchemaId(g)
            refs == ReferencingConfigurations(g)
        IN  (\E c \in refs : ~c.active)
                => o.err = "referenced" /\ o.count = Cardinality(refs)

DuplicateVersion(g) ==
    \E c \in configs : \E d \in configs :
        c.configId = g /\ d.configId = g /\ c.id # d.id /\ c.version = d.version

\* C10: two revises of one configuration group whose steps interleave can leave
\* the group with two active versions that carry the same version number; when no
\* two revises of a group are ever in progress at once, no group has two active
\* versions or a repeated version number.
C10_TwoActiveOnlyWhenRaced ==
    \A g \in ExistingConfigGroups :
        (Cardinality(ActiveConfigs(g)) >= 2 \/ DuplicateVersion(g)) => g \in raced

\* both revises have returned; the group has two active versions numbered alike
C10_Witness ==
    \E g \in ExistingConfigGroups :
        /\ \A p \in Procs : pc[p] = "idle"
        /\ g \in raced
        /\ \E c \in ActiveConfigs(g) : \E d \in ActiveConfigs(g) :
               c.id # d.id /\ c.version = d.version

\* C11: when a schema revise stops after its deactivate step and before its insert
\* step, the group keeps every prior version, none of them active; getActive finds
\* nothing; and setActiveVersion on any existing version of the group returns it
\* and leaves it the one active version.
C11_CrashRecoverable ==
    \A p \in Procs :
        pc[p] = "crashed" =>
            LET g == loc[p].schemaId
                now == FindAllVersionsBySchemaId(schemas, g)
            IN  /\ now = {[s EXCEPT !.active = FALSE] : s \in loc[p].before}
                /\ FindActiveBySchemaId(schemas, g) = {}
                /\ \A s \in now :
                     LET o == SchemaSetActiveVersion(g, s.version)
                     IN  /\ o.ret = {[s EXCEPT !.active = TRUE]}
                         /\ {t \in o.schemas : t.schemaId = g /\ t.active} = o.ret
                         /\ o.schemas = (schemas \ {s}) \cup o.ret

\* a revise of a group of two versions has stopped before its insert
C11_Witness ==
    \E p \in Procs :
        /\ pc[p] = "crashed"
        /\ Cardinality(loc[p].before) = 2
        /\ \E s \in loc[p].before : s.active

\* C12: a revise throws not-found exactly when the group has no version at all; with
\* unchanged or valid new attributes it succeeds on every group that has a version,
\* whether or not one of them is active.
C12_NotFoundOnlyForEmptyGroup ==
    /\ \A g \in SchemaGroupIds :
         \A u \in [name : {Undefined}, type : {Undefined}, schema : Opt(ValidDocs)] :
           LET o == UpdateSchemaBySchemaId(g, u)
           IN  IF FindAllVersionsBySchemaId(schemas, g) = {}
               THEN o.err = "not_found" ELSE o.err = ""
    /\ \A g \in ConfigGroupIds :
         LET o == UpdateConfigurationByConfigId(g, [name |-> Undefined, type |-> Undefined,
                                                    schemaId |-> Undefined, data |-> Undefined])
         IN  IF FindAllVersionsByConfigId(configs, g) = {}
             THEN o.err = "not_found" ELSE o.err = ""

\* C13: setActiveVersion on a version number the group does not have returns
\* nothing and leaves the active flag of every version as it was.
C13_SetActiveMissingKeepsFlags ==
    /\ \A g \in ExistingSchemaGroups : \A v \in SchemaVersions :
         FindBySchemaIdAndVersion(schemas, g, v) = {}
            => LET o == SchemaSetActiveVersion(g, v) IN o.ret = {} /\ o.schemas = schemas
    /\ \A g \in ExistingConfigGroups : \A v \in ConfigVersions :
         FindByConfigIdAndVersion(configs, g, v) = {}
            => LET o == ConfigSetActiveVersion(g, v) IN o.ret = {} /\ o.configs = configs

ActiveSchemaIds(S, g) == {s.id : s \in {t \in S : t.schemaId = g /\ t.active}}
ActiveConfigIds(C, g) == {c.id : c \in {d \in C : d.configId = g /\ d.active}}

\* C14: in a serialized history the active version of a group is the one the last
\* successful create, revise or activate designated: a group never has two active
\* versions, and it stops having an active version only when that version is
\* deleted.
C14_ActiveIsLastDesignated ==
    [][/\ \A g \in {s.schemaId : s \in schemas'} :
            /\ Cardinality(ActiveSchemaIds(schemas', g)) <= 1
            /\ ActiveSchemaIds(schemas', g) = {}
                 => \A a \in ActiveSchemaIds(schemas, g) : \A s \in schemas' : s.id # a
       /\ \A g \in {c.configId : c \in configs'} :
            /\ Cardinality(ActiveConfigIds(configs', g)) <= 1
            /\ ActiveConfigIds(configs', g) = {}
                 => \A a \in ActiveConfigIds(configs, g) : \A c \in configs' : c.id # a
      ]_vars

\* C15: a revise whose updates carry a name other than the group's throws the
\* immutable-name error, inserts nothing and changes no active flag; all versions
\* of a group carry one name.
C15_RenameRejected ==
    /\ \A g \in ExistingSchemaGroups : \A n \in Names :
         (\E s \in FindAllVersionsBySchemaId(schemas, g) : s.name # n)
            => LET o == UpdateSchemaBySchemaId(g, [name |-> Some(n), type |-> Undefined,
                                                   schema |-> Undefined])
               IN  o.err = "name_immutable" /\ o.schemas = schemas
    /\ \A g \in ExistingConfigGroups : \A n \in Names :
         (\E c \in FindAllVersionsByConfigId(configs, g) : c.name # n)
            => LET o == UpdateConfigurationByConfigId(g, [name |-> Some(n), type |-> Undefined,
                                                          schemaId |-> Undefined,
                                                          data |-> Undefined])
               IN  o.err = "name_immutable" /\ o.configs = configs
    /\ \A s \in schemas : \A t \in schemas : s.schemaId = t.schemaId => s.name = t.name
    /\ \A c \in configs : \A d \in configs : c.configId = d.configId => c.name = d.name

\* C16: all versions of a schema group have one type, and all versions of a
\* configuration group have one type.
C16_TypePerGroup ==
    /\ \A s \in schemas : \A t \in schemas : s.schemaId = t.schemaId => s.type = t.type
    /\ \A c \in configs : \A d \in configs : c.configId = d.configId => c.type = d.type

\* C17: createSchema throws the duplicate-name error when a schema of the same type
\* and a name equal up to case exists, and no two schema groups hold versions of
\* the same type with names equal up to case.
C17_SchemaNameUniquePerType ==
    /\ \A n \in Names : \A ty \in VALID_TYPES :
         (\E s \in schemas : s.type = ty /\ NameMatches(n, s.name))
            => LET o == CreateSchema(n, ty, DocX)
               IN  o.err = "duplicate_name" /\ o.schemas = schemas
    /\ \A s \in schemas : \A t \in schemas :
         (s.type = t.type /\ NameMatches(s.name, t.name)) => s.schemaId = t.schemaId

\* no two configuration groups hold versions with names equal up to case that are
\* pinned to the same schema version
ConfigNamesUnique(C) ==
    \A c \in C : \A d \in C :
        (NameMatches(c.name, d.name) /\ c.schemaId = d.schemaId) => c.configId = d.configId

\* C18: after a register or a revise of a configuration, a revise that re-points it
\* included, configuration names are unique per pinned schema version.
C18_ConfigNameUniquePerTarget ==
    /\ ConfigNamesUnique(configs)
    /\ \A n \in Names : \A ty \in VALID_TYPES : \A t \in SchemaObjectIds : \A d \in DataValues :
         ConfigNamesUnique(CreateConfiguration(n, ty, t, d).configs)
    /\ \A g \in ConfigGroupIds :
         \A u \in [name : {Undefined}, type : {Undefined}, schemaId : Opt(SchemaObjectIds),
                   data : Opt(DataValues)] :
           ConfigNamesUnique(UpdateConfigurationByConfigId(g, u).configs)

CreateConfigurationInputs == Names \X VALID_TYPES \X SchemaObjectIds \X DataValues

\* C19: a createConfiguration that throws (target not found, type differs from the
\* schema's, name taken for that target, data rejected by the target's document)
\* writes no configuration, changes no stored document and publishes nothing.
C19_CreateConfigurationAtomic ==
    \A i \in CreateConfigurationInputs :
        LET o == CreateConfiguration(i[1], i[2], i[3], i[4])
        IN  o.err # "" =>
                /\ o.configs = configs /\ o.schemas = schemas
                /\ o.nextCid = nextCid /\ o.nextSid = nextSid
                /\ o.ret = {} /\ o.events = <<>>

\* a store on which createConfiguration fails in each of the four ways and succeeds
\* in one
C19_Witness ==
    \A e \in {"schema_not_found", "type_mismatch", "duplicate_name", "invalid_data", ""} :
        \E i \in CreateConfigurationInputs :
            CreateConfiguration(i[1], i[2], i[3], i[4]).err = e

\* the revises of group g that name a target other than the active version's
RepointUpdates(g) ==
    {u \in [name : {Undefined}, type : {Undefined}, schemaId : Opt(SchemaObjectIds),
            data : Opt(DataValues)] :
        /\ u.schemaId # Undefined
        /\ \A e \in FindActiveByConfigId(configs, g) : u.schemaId[1] # e.schemaId}

\* C20: a configuration revise that names a new target returns a new version only
\* if the target exists, has the configuration's type and its document accepts the
\* resulting data (the new data if given, else the existing data); when it throws,
\* no version is inserted and no active flag changes.
C20_RepointChecked ==
    \A g \in ConfigGroupIds : \A u \in RepointUpdates(g) :
        LET o == UpdateConfigurationByConfigId(g, u)
            existing == FindActiveByConfigId(configs, g)
            target == FindById(schemas, u.schemaId[1])
            newData == IF u.data # Undefined THEN u.data[1] ELSE The(existing).data
        IN  IF o.err = ""
            THEN /\ existing # {} /\ target # {}
                 /\ The(target).type = The(existing).type
                 /\ RunValidator(The(target).schema, newData)
                 /\ The(o.ret).schemaId = u.schemaId[1] /\ The(o.ret).data = newData
            ELSE o.configs = configs /\ o.nextCid = nextCid

\* a configuration that was re-pointed, in a store where another re-point of it
\* fails on the type and another on the data
C20_Witness ==
    \E c \in configs : \E d \in configs :
        /\ c.configId = d.configId /\ c.version = 1 /\ d.version = 2 /\ d.active
        /\ c.schemaId # d.schemaId
        /\ \E u \in RepointUpdates(d.configId) :
               UpdateConfigurationByConfigId(d.configId, u).err = "type_mismatch"
        /\ \E u \in RepointUpdates(d.configId) :
               UpdateConfigurationByConfigId(d.configId, u).err = "invalid_data"

\* C21: a document that fails ajv.validateSchema is refused by createSchema and by
\* updateSchemaBySchemaId with the invalid-schema error; nothing is inserted, no
\* version is deactivated and no validator is cached.
C21_InvalidSchemaRejected ==
    /\ \A n \in Names : \A ty \in VALID_TYPES :
         LET o == CreateSchema(n, ty, DocInvalid)
         IN  /\ o.err = "invalid_schema"
             /\ o.schemas = schemas /\ o.validators = validators
    /\ \A g \in ExistingSchemaGroups :
         LET o == UpdateSchemaBySchemaId(g, [name |-> Undefined, type |-> Undefined,
                                             schema |-> Some(DocInvalid)])
         IN  /\ o.err = "invalid_schema"
             /\ o.schemas = schemas /\ o.validators = validators

\* C22: every key of the validator cache is the id of a stored schema version, and
\* after deleteAllVersionsBySchemaId returns, the cache has no entry for a version
\* of the deleted group.
C22_CacheKeysExist ==
    /\ \A v \in validators : \E s \in schemas : s.id = v.id
    /\ \A g \in SchemaGroupIds :
         LET o == SchemaDeleteAllVersionsBySchemaId(g)
         IN  o.err = "" =>
                 /\ \A s \in FindAllVersionsBySchemaId(schemas, g) :
                        ~ValidatorsHas(o.validators, s.id)
                 /\ \A v \in o.validators : \E s \in o.schemas : s.id = v.id

\* the first schema document and its cache entry are gone, a later one is cached
C22_Witness ==
    /\ \A s \in schemas : s.id # Sid(1)
    /\ ~ValidatorsHas(validators, Sid(1))
    /\ \E s \in schemas : s.id = Sid(2) /\ ValidatorsHas(validators, s.id)

\* the outcomes of the create, update and delete handlers on the current store
NotifyingOutcomes ==
    {CreateSchema(n, ty, d) : n \in CoreNames, ty \in CoreTypes, d \in ValidDocs}
    \cup {UpdateSchemaBySchemaId(g, u) : g \in SchemaGroupIds,
            u \in [name : {Undefined}, type : {Undefined}, schema : Opt(ValidDocs)]}
    \cup {SchemaDeleteAllVersionsBySchemaId(g) : g \in SchemaGroupIds}
    \cup {CreateConfiguration(n, ty, t, d) : n \in CoreNames, ty \in CoreTypes,
            t \in SchemaObjectIds, d \in DataValues}
    \cup {UpdateConfigurationByConfigId(g, u) : g \in ConfigGroupIds,
            u \in [name : {Undefined}, type : {Undefined}, schemaId : {Undefined},
                   data : Opt(DataValues)]}
    \cup {ConfigSetActiveVersion(g, v) : g \in ConfigGroupIds, v \in ConfigVersions}
    \cup {DeleteConfiguration(id) : id \in ConfigObjectIds}
    \cup {DeleteAllConfigurations}

\* C23: whatever the state of the publisher, a create, update or delete handler
\* throws what it throws with the publisher connected, returns the same and
\* persists the same.
C23_NotifyNeverFails ==
    \A o \in NotifyingOutcomes : \A channel \in ChannelStates :
        LET r == Notify(channel, o)
        IN  /\ r.err = o.err /\ r.ret = o.ret /\ r.count = o.count
            /\ r.schemas = o.schemas /\ r.configs = o.configs
            /\ r.validators = o.validators

\* a store on which a create, an update and a delete each have a notification to
\* publish, none of which arrives while channel.publish throws
C23_Witness ==
    \A e \in {"SCHEMA_UPDATED", "SCHEMA_DELETED", "CONFIGURATION_UPDATED",
              "CONFIGURATION_DELETED"} :
        \E o \in NotifyingOutcomes :
            /\ o.err = "" /\ o.events # <<>> /\ o.events[1] = e
            /\ Notify("connected", o).events = o.events
            /\ Notify("failing", o).events = <<>>

C25_DeleteGroupCounts ==
    \A g \in SchemaGroupIds :
        LET o == SchemaDeleteAllVersionsBySchemaId(g)
            versions == FindAllVersionsBySchemaId(schemas, g)
            again == DeleteAllVersionsBySchemaId(o.schemas, g)
        IN  o.err = "" =>
                /\ o.schemas = schemas \ versions
                /\ o.count = Cardinality(versions)
                /\ (versions = {} => o.count = 0 /\ o.schemas = schemas /\ o.configs = configs)
                /\ again = o.schemas
                /\ Cardinality(o.schemas) - Cardinality(again) = 0

\* a group of two versions, one of them active, that the delete removes
C25_Witness ==
    \E g \in ExistingSchemaGroups :
        /\ Cardinality(FindAllVersionsBySchemaId(schemas, g)) = 2
        /\ ActiveSchemas(g) # {}
        /\ SchemaDeleteAllVersionsBySchemaId(g).err = ""
        /\ SchemaDeleteAllVersionsBySchemaId(g).count = 2

\* C26: retiring a configuration removes every version of its group and returns
\* their number; afterwards no version of that group is stored.
C26_RetireConfigurationGroup ==
    \A c \in configs :
        LET o == DeleteConfiguration(c.id)
        IN  /\ FindAllVersionsByConfigId(o.configs, c.configId) = {}
            /\ o.count = Cardinality(FindAllVersionsByConfigId(configs, c.configId))

\* C27: when the loader runs a second time over the same files, with no request in
\* between, the schema store and the configuration store stay, at every turn of the
\* second run and at its end, what the first run left.
C27_LoaderIdempotent ==
    \A p \in Procs :
        (pc[p] \in {"loadSchemas", "loadConfigurations", "reloaded"} /\ ~loc[p].first)
            => <<schemas, configs>> = loc[p].after

\* a second run is over whose files hold a schema entry and a configuration entry,
\* both of which the first run has stored
C27_Witness ==
    \E p \in Procs :
        /\ pc[p] = "reloaded"
        /\ loc[p].files.schemas # <<>> /\ loc[p].files.configurations # <<>>
        /\ \E s \in schemas : s.schemaId = FileSchemaId
        /\ \E c \in configs : c.configId = NoConfigId

\* C28: createSchemaWithVersion, given the schemaId, the name and the type of a
\* stored group and a version number the group does not hold, returns and stores that
\* version in the group.
C28_AddVersionToGroup ==
    \A s \in schemas : \A d \in ValidDocs : \A active \in BOOLEAN :
        LET version == s.version + 1
            o == CreateSchemaWithVersion(s.name, s.type, d, version, active, s.schemaId)
        IN  FindBySchemaIdAndVersion(schemas, s.schemaId, version) = {} =>
                /\ o.err = ""
                /\ \E t \in o.schemas : /\ t.schemaId = s.schemaId /\ t.version = version
                                        /\ t.name = s.name /\ t.schema = d

C30_FailedReviseWritesNothing ==
    \A g \in SchemaGroupIds :
        \A u \in [name : Opt(CoreNames), type : {Undefined}, schema : Opt(Docs)] :
            LET o == UpdateSchemaBySchemaId(g, u)
            IN  o.err # "" => /\ o.schemas = schemas
                              /\ o.nextSid = nextSid
                              /\ o.events = <<>>

\* C31: with the unique index on (schemaId, version) in place, interleaved revises
\* of one schema group never give two versions of the group one version number,
\* and once no call is in progress every group that has versions has exactly one
\* active version.
C31_RacingRevisesKeepOneActive ==
    /\ \A s \in schemas : \A t \in schemas :
           (s.schemaId = t.schemaId /\ s.version = t.version) => s.id = t.id
    /\ Quiet => \A g \in ExistingSchemaGroups : Cardinality(ActiveSchemas(g)) = 1

\* C32: when a createConfiguration and a deleteAllVersionsBySchemaId of the group
\* of its target interleave, then, once no call is in progress, every stored
\* configuration refers to a stored schema version.
C32_NoDanglingAfterRace ==
    Quiet => \A c \in configs : FindById(schemas, c.schemaId) # {}

\* C33: under interleaved creators no two schema groups carry names of one type that
\* are equal up to case, and no two configuration groups carry names equal up to
\* case for one target.
C33_NamesUniqueUnderRace ==
    /\ \A s \in schemas : \A t \in schemas :
           (s.type = t.type /\ NameMatches(s.name, t.name)) => s.schemaId = t.schemaId
    /\ \A c \in configs : \A d \in configs :
           (c.schemaId = d.schemaId /\ NameMatches(c.name, d.name)) => c.configId = d.configId

\* C34: in any sequence of serialized requests, deletes of single versions included,
\* the version numbers inserted into a group are strictly increasing in the order
\* of creation: no number is assigned twice in a group.
C34_VersionNumbersNeverReused ==
    LET h == loc[Starter]
    IN  \A i \in DOMAIN h : \A j \in DOMAIN h :
            (i < j /\ h[i].group = h[j].group) => h[i].version < h[j].version

\* C35: a delete of one version by its id (deleteSchema, deleteConfiguration), made
\* on a group that has exactly one active version, leaves the group either without
\* versions or with exactly one active version; deleteAllConfigurations leaves no
\* configuration group with versions and none of them active.
C35_SingleDeleteKeepsActive ==
    /\ \A s \in schemas :
           LET S == DeleteSchema(s.id).schemas
               left == {t \in S : t.schemaId = s.schemaId}
           IN  Cardinality(ActiveSchemas(s.schemaId)) = 1 =>
                   (left = {} \/ Cardinality({t \in left : t.active}) = 1)
    /\ \A c \in configs :
           LET C == DeleteConfiguration(c.id).configs
               left == {d \in C : d.configId = c.configId}
           IN  Cardinality(ActiveConfigs(c.configId)) = 1 =>
                   (left = {} \/ Cardinality({d \in left : d.active}) = 1)
    /\ \A d \in DeleteAllConfigurations.configs : \E e \in DeleteAllConfigurations.configs :
           e.configId = d.configId /\ e.active

\* C36: a revise that returns gives the new version, for every field the updates
\* omit, the value of the version that was active when it was called, whatever
\* the highest-numbered version holds: document and type for a schema, data and
\* target for a configuration; a field the updates supply is taken from them.
C36_CarriedFromActive ==
    /\ \A g \in SchemaGroupIds :
         \A u \in [name : {Undefined}, type : Opt(CoreTypes), schema : Opt(ValidDocs)] :
           LET o == UpdateSchemaBySchemaId(g, u)
           IN  o.err = "" =>
                 \E a \in ActiveSchemas(g) :
                     /\ The(o.ret).name = a.name
                     /\ The(o.ret).schema = IF u.schema = Undefined THEN a.schema ELSE u.schema[1]
                     /\ The(o.ret).type = IF u.type = Undefined THEN a.type ELSE u.type[1]
    /\ \A g \in ConfigGroupIds :
         \A u \in [name : {Undefined}, type : {Undefined}, schemaId : Opt(SchemaObjectIds),
                   data : Opt(DataValues)] :
           LET o == UpdateConfigurationByConfigId(g, u)
           IN  o.err = "" =>
                 \E a \in ActiveConfigs(g) :
                     /\ The(o.ret).name = a.name /\ The(o.ret).type = a.type
                     /\ The(o.ret).data = IF u.data = Undefined THEN a.data ELSE u.data[1]
                     /\ The(o.ret).schemaId = IF u.schemaId = Undefined THEN a.schemaId
                                              ELSE u.schemaId[1]

\* version 1 is active again while version 2 holds another document (other data);
\* a revise with empty updates returns a version with what version 1 holds
C36_Witness ==
    /\ \E a \in schemas : \E b \in schemas :
           /\ a.schemaId = b.schemaId /\ a.version < b.version /\ a.active
           /\ a.schema # b.schema
           /\ FindLatestBySchemaId(schemas, a.schemaId) = {b}
           /\ LET o == UpdateSchemaBySchemaId(a.schemaId, NoUpdates)
              IN  o.err = "" /\ The(o.ret).schema = a.schema /\ The(o.ret).version > b.version
    /\ \E c \in configs : \E d \in configs :
           /\ c.configId = d.configId /\ c.version < d.version /\ c.active
           /\ c.data # d.data
           /\ LET o == UpdateConfigurationByConfigId(c.configId,
                           [name |-> Undefined, type |-> Undefined, schemaId |-> Undefined,
                            data |-> Undefined])
              IN  o.err = "" /\ The(o.ret).data = c.data /\ The(o.ret).schemaId = c.schemaId

\* C37: every cached validator is the one compiled from the document stored under
\* its id, and for every stored version and every data value validateDataByVersion
\* gives one result (error or verdict) whether it starts from the cache as it is,
\* from an empty cache, or from the cache the call itself has filled.
C37_CacheTransparent ==
    /\ \A v \in validators : \E s \in schemas : s.id = v.id /\ s.schema = v.doc
    /\ \A s \in schemas : \A data \in DataValues :
           LET warm == ValidateDataByVersion(schemas, validators, s.schemaId, s.version, data)
               cold == ValidateDataByVersion(schemas, {}, s.schemaId, s.version, data)
               again == ValidateDataByVersion(schemas, cold.V, s.schemaId, s.version, data)
           IN  /\ <<warm.err, warm.valid>> = <<cold.err, cold.valid>>
               /\ <<again.err, again.valid>> = <<cold.err, cold.valid>>
               /\ cold.err = "" => ValidatorsHas(cold.V, s.id)

\* two versions of a group with different documents, both cached, one of which
\* accepts a data value that the other rejects
C37_Witness ==
    \E s \in schemas : \E t \in schemas :
        /\ s.schemaId = t.schemaId /\ s.schema # t.schema
        /\ ValidatorsHas(validators, s.id) /\ ValidatorsHas(validators, t.id)
        /\ \E data \in DataValues :
               /\ ValidateDataByVersion(schemas, validators, s.schemaId, s.version, data).valid = "true"
               /\ ValidateDataByVersion(schemas, validators, t.schemaId, t.version, data).valid = "false"

\* C38: validateData on a group gives what validateDataByVersion gives for the
\* number of the group's active version, which is the verdict of that version's
\* document; on a group with no active version it throws and returns no verdict.
C38_ValidateUsesActive ==
    \A g \in SchemaGroupIds : \A data \in DataValues :
        LET o == SchemaValidateData(g, data)
        IN  IF ActiveSchemas(g) = {}
            THEN o.err = "not_found" /\ o.valid = "na"
            ELSE \A a \in ActiveSchemas(g) :
                     LET v == SchemaValidateDataByVersion(g, a.version, data)
                     IN  /\ o.err = v.err /\ o.valid = v.valid
                         /\ o.err = "" =>
                                o.valid = IF RunValidator(a.schema, data) THEN "true"
                                          ELSE "false"

\* the active version is not the highest-numbered one and accepts a data value that
\* the highest-numbered one rejects
C38_Witness ==
    \E a \in schemas : \E b \in schemas : \E data \in DataValues :
        /\ a.schemaId = b.schemaId /\ a.version < b.version /\ a.active /\ ~b.active
        /\ ~RunValidator(b.schema, data)
        /\ SchemaValidateData(a.schemaId, data).valid = "true"
        /\ SchemaValidateDataByVersion(a.schemaId, b.version, data).valid = "false"

\* the outcomes of the handlers that create, revise or delete a schema or a
\* configuration, on the current store
ChangingOutcomes ==
    {CreateSchema(n, ty, d) : n \in CoreNames, ty \in CoreTypes, d \in Docs}
    \cup {UpdateSchemaBySchemaId(g, u) : g \in SchemaGroupIds,
            u \in [name : Opt(CoreNames), type : {Undefined}, schema : Opt(Docs)]}
    \cup {DeleteSchema(id) : id \in SchemaObjectIds}
    \cup {SchemaDeleteAllVersionsBySchemaId(g) : g \in SchemaGroupIds}
    \cup {CreateConfiguration(n, ty, t, d) : n \in CoreNames, ty \in CoreTypes,
            t \in SchemaObjectIds, d \in DataValues}
    \cup {UpdateConfigurationByConfigId(g, u) : g \in ConfigGroupIds,
            u \in [name : {Undefined}, type : {Undefined}, schemaId : {Undefined},
                   data : Opt(DataValues)]}
    \cup {DeleteConfiguration(id) : id \in ConfigObjectIds}

\* C39: with the publisher connected, a create, revise or delete that returns and
\* has changed the store publishes exactly one event, and one that throws or
\* leaves the store as it was publishes none.
C39_OneEventPerChange ==
    \A o \in ChangingOutcomes :
        LET changed == o.schemas # schemas \/ o.configs # configs
            published == Notify("connected", o).events
        IN  IF o.err = "" /\ changed THEN Len(published) = 1 ELSE published = <<>>

====
